---- MODULE Spec2Model ----
(***************************************************************************)
(* Model of remix-live2live-event: the polling loop of docker/app/event.py *)
(* (list_chunks, filter_chunks, main) and the SMIL document model of       *)
(* docker/app/utils/smil.py (containers, element(), parse()).              *)
(*                                                                         *)
(* Time is counted in units of 1/UnitsPerSecond second since EPOCH.  A     *)
(* datetime is <<t>> (naive, wall clock t) or <<t, off>> (aware, wall      *)
(* clock t at UTC offset off minutes); None is <<>>.  A str the code       *)
(* orders or parses is a sequence of one-character strings.                *)
(***************************************************************************)
EXTENDS Integers, Sequences, FiniteSets, TLC

VARIABLES
    start_time,        \* main(start_time): aware datetime
    end_time,          \* main(end_time): aware datetime
    archive_interval,  \* main(archive_interval): timedelta, in units
    archive,           \* object names the S3 bucket held at the last listing
    today,             \* day number datetime.now() fell in at the last listing
    pc,                \* position of main in its while loop
    archive_chunks,    \* main: result of list_chunks this tick
    prev_listing,      \* <<listing of the previous tick>>, <<>> before tick 2
    chunks,            \* main: result of filter_chunks this tick
    old_chunks,        \* main: the remembered list
    result,            \* what the tick logged: "changed" / "unchanged"
    smil,              \* the SMIL document (main's smil / the document under edit)
    period,            \* main: period identifier
    effects,           \* what the tick did so far, in order: <<what, exit status>>
    raised,            \* the exception last raised ("none" if none)
    attempt            \* the last checked container operation: <<container tag, value tag>>

vars == <<start_time, end_time, archive_interval, archive, today, pc,
          archive_chunks, prev_listing, chunks, old_chunks, result, smil,
          period, effects, raised, attempt>>

(***************************************************************************)
(* Bounds of the model.                                                    *)
(***************************************************************************)
UnitsPerSecond == 2   \* time resolution: units per second
MaxInterval == 2      \* archive_interval ranges over 1..MaxInterval units
MaxOffset == 4        \* window start and end lie within MaxOffset units of a base
MaxNodes == 3         \* nodes a document under edit may hold

DayUnits == 86400 * UnitsPerSecond
MicroPerUnit == 1000000 \div UnitsPerSecond

(***************************************************************************)
(* str: comparison, replace, digits.                                       *)
(***************************************************************************)
Ord(c) ==
    CASE c = "(" -> 40 [] c = ")" -> 41 [] c = "+" -> 43 [] c = "-" -> 45
      [] c = "." -> 46 [] c = "0" -> 48 [] c = "1" -> 49 [] c = "2" -> 50
      [] c = "3" -> 51 [] c = "4" -> 52 [] c = "5" -> 53 [] c = "6" -> 54
      [] c = "7" -> 55 [] c = "8" -> 56 [] c = "9" -> 57 [] c = ":" -> 58
      [] c = "T" -> 84 [] c = "Z" -> 90

RECURSIVE StrLess(_, _)
\* str.__lt__: code point order, a proper prefix is smaller
StrLess(a, b) ==
    IF b = <<>> THEN FALSE
    ELSE IF a = <<>> THEN TRUE
    ELSE IF Head(a) = Head(b) THEN StrLess(Tail(a), Tail(b))
    ELSE Ord(Head(a)) < Ord(Head(b))

StartsWith(s, p) == Len(s) >= Len(p) /\ SubSeq(s, 1, Len(p)) = p

RECURSIVE Replace(_, _, _)
\* str.replace(old, new): every occurrence, left to right
Replace(s, old, new) ==
    IF s = <<>> THEN <<>>
    ELSE IF StartsWith(s, old)
         THEN new \o Replace(SubSeq(s, Len(old) + 1, Len(s)), old, new)
         ELSE <<Head(s)>> \o Replace(Tail(s), old, new)

Digit(n) == <<"0", "1", "2", "3", "4", "5", "6", "7", "8", "9">>[n + 1]
Val(c) == Ord(c) - 48
Pad2(n) == <<Digit((n \div 10) % 10), Digit(n % 10)>>
Pad6(n) == Pad2(n \div 10000) \o Pad2((n \div 100) % 100) \o Pad2(n % 100)
Num2(s, i) == 10 * Val(s[i]) + Val(s[i + 1])

(***************************************************************************)
(* datetime: strftime("%Y-%m-%d"), isoformat(), isodate.parse_datetime.    *)
(* Days 0..30 are the days of January 1970.                                *)
(***************************************************************************)
Abs(n) == IF n < 0 THEN -n ELSE n

\* datetime.strftime("%Y-%m-%d")
DateStr(dt) ==
    <<"1", "9", "7", "0", "-", "0", "1", "-">> \o Pad2((dt[1] \div DayUnits) + 1)

\* datetime.isoformat(): date, T, time, microseconds if any, offset if aware
IsoFormat(dt) ==
    LET rem   == dt[1] % DayUnits
        sec   == rem \div UnitsPerSecond
        micro == (rem % UnitsPerSecond) * MicroPerUnit
    IN  DateStr(dt) \o <<"T">>
          \o Pad2(sec \div 3600) \o <<":">> \o Pad2((sec \div 60) % 60)
          \o <<":">> \o Pad2(sec % 60)
          \o (IF micro # 0 THEN <<".">> \o Pad6(micro) ELSE <<>>)
          \o (IF Len(dt) = 2
              THEN <<IF dt[2] < 0 THEN "-" ELSE "+">> \o Pad2(Abs(dt[2]) \div 60)
                     \o <<":">> \o Pad2(Abs(dt[2]) % 60)
              ELSE <<>>)

\* x.isoformat().replace("+00:00", "Z")
IsoZ(dt) == Replace(IsoFormat(dt), <<"+", "0", "0", ":", "0", "0">>, <<"Z">>)

\* isodate.parse_datetime on "YYYY-MM-DDTHH:MM:SS[.ffffff][Z|+HH:MM|-HH:MM]"
parse_datetime(s) ==
    LET day   == Num2(s, 9) - 1
        sec   == Num2(s, 12) * 3600 + Num2(s, 15) * 60 + Num2(s, 18)
        rest  == SubSeq(s, 20, Len(s))
        frac  == Len(rest) >= 7 /\ rest[1] = "."
        micro == IF frac
                 THEN Num2(rest, 2) * 10000 + Num2(rest, 4) * 100 + Num2(rest, 6)
                 ELSE 0
        tz    == IF frac THEN SubSeq(rest, 8, Len(rest)) ELSE rest
        t     == day * DayUnits + sec * UnitsPerSecond + (micro \div MicroPerUnit)
    IN  CASE tz = <<>> -> <<t>>
          [] tz = <<"Z">> -> <<t, 0>>
          [] Len(tz) = 6 /\ tz[1] = "+" -> <<t, Num2(tz, 2) * 60 + Num2(tz, 5)>>
          [] Len(tz) = 6 /\ tz[1] = "-" -> <<t, -(Num2(tz, 2) * 60 + Num2(tz, 5))>>

(***************************************************************************)
(* smil.py: the nodes.  Every node is a record of one shape; the fields a  *)
(* class does not have hold <<>>.  tag tells the class: "seq" Seq, "par"   *)
(* Par, "video"/"audio" SMILMediaItem, "meta" Meta, "head" Head.           *)
(***************************************************************************)
Node(tag, src, name, content, begin, end, list) ==
    [tag |-> tag, src |-> src, name |-> name, content |-> content,
     begin |-> begin, end |-> end, list |-> list]

SMILMediaItem(tag, src, begin, end) == Node(tag, src, <<>>, <<>>, begin, end, <<>>)
Video(src, begin, end) == SMILMediaItem("video", src, begin, end)
Audio(src, begin, end) == SMILMediaItem("audio", src, begin, end)
Meta(name, content) == Node("meta", <<>>, name, content, <<>>, <<>>, <<>>)
SeqNode(list) == Node("seq", <<>>, <<>>, <<>>, <<>>, <<>>, list)
ParNode(list, begin, end) == Node("par", <<>>, <<>>, <<>>, begin, end, list)
HeadNode(list) == Node("head", <<>>, <<>>, <<>>, <<>>, <<>>, list)

\* SMIL.__init__ with no arguments: body = Seq([]), head = Head([])
SMIL == [head |-> HeadNode(<<>>), body |-> SeqNode(<<>>)]

\* variant: a check that lets a Meta through
SeqCheckLoose(value) == value.tag \in {"seq", "par", "video", "audio", "meta"}
\* Seq.check / Par.check: isinstance(value, (Seq, SMILMediaItem, Par))
SeqCheck(value) == value.tag \in {"seq", "par", "video", "audio"}

\* Head.check: isinstance(value, (Meta))
HeadCheck(value) == value.tag = "meta"

\* self.check(value) of the container: TRUE if it returns, FALSE if it raises
Check(container, value) ==
    IF container.tag = "head" THEN HeadCheck(value) ELSE SeqCheck(value)

\* list.insert(index, value) for 0 <= index <= len
ListInsert(l, index, value) ==
    SubSeq(l, 1, index) \o <<value>> \o SubSeq(l, index + 1, Len(l))

\* del list[index], 0-based
ListDel(l, index) == SubSeq(l, 1, index) \o SubSeq(l, index + 2, Len(l))

\* SMILListBase.insert after a passed check
insert(container, index, value) ==
    [container EXCEPT !.list = ListInsert(@, index, value)]

\* MutableSequence.append: self.insert(len(self), value)
append(container, value) == insert(container, Len(container.list), value)

\* SMILListBase.__setitem__ after a passed check
setitem(container, index, value) ==
    [container EXCEPT !.list = [@ EXCEPT ![index + 1] = value]]

\* SMILListBase.__delitem__
delitem(container, index) == [container EXCEPT !.list = ListDel(@, index)]

(***************************************************************************)
(* smil.py: element().  An element is [tag, attrib, children]; attrib is   *)
(* the sequence of <<name, value>> in the order they were set.             *)
(***************************************************************************)
Element(tag, attrib, children) ==
    [tag |-> tag, attrib |-> attrib, children |-> children]

\* f"wallclock({x.isoformat().replace('+00:00', 'Z')})"
Wallclock(dt) ==
    <<"w", "a", "l", "l", "c", "l", "o", "c", "k", "(">> \o IsoZ(dt) \o <<")">>

\* the clipBegin / clipEnd attributes Par.element and SMILMediaItem.element set
ClipAttrib(node) ==
    (IF node.begin # <<>> THEN <<<<"clipBegin", Wallclock(node.begin)>>>> ELSE <<>>)
      \o (IF node.end # <<>> THEN <<<<"clipEnd", Wallclock(node.end)>>>> ELSE <<>>)

RECURSIVE NodeElement(_)
\* Seq.element, Par.element, SMILMediaItem.element, Meta.element
NodeElement(node) ==
    CASE node.tag \in {"video", "audio"} ->
           Element(node.tag, <<<<"src", node.src>>>> \o ClipAttrib(node), <<>>)
      [] node.tag = "seq" ->
           Element("seq", <<>>,
                   [i \in 1..Len(node.list) |-> NodeElement(node.list[i])])
      [] node.tag = "par" ->
           Element("par", ClipAttrib(node),
                   [i \in 1..Len(node.list) |-> NodeElement(node.list[i])])
      [] node.tag = "meta" ->
           Element("meta", <<<<"name", node.name>>, <<"content", node.content>>>>,
                   <<>>)

\* SMIL.element: "if self.body:" is len(self.body) > 0
SMILElement(doc) ==
    Element("smil", <<>>,
        << Element("head", <<>>,
                   [i \in 1..Len(doc.head.list) |-> NodeElement(doc.head.list[i])]),
           Element("body", <<>>,
                   IF Len(doc.body.list) > 0
                   THEN <<NodeElement(doc.body)>> ELSE <<>>) >>)

(***************************************************************************)
(* smil.py: parse().  The element tree is what lxml hands back for the     *)
(* serialized document: same tags, attributes and children.                *)
(***************************************************************************)
WallclockOpen == <<"w", "a", "l", "l", "c", "l", "o", "c", "k", "(">>

\* _stripwallclock: search("wallclock\\((.*)\\)", s), on a value that is
\* either bare or wholly wrapped
stripwallclock(s) ==
    IF StartsWith(s, WallclockOpen) /\ s[Len(s)] = ")"
    THEN SubSeq(s, Len(WallclockOpen) + 1, Len(s) - 1)
    ELSE s

\* "k in xml.attrib" and xml.attrib[k]
HasAttr(xml, k) == \E i \in 1..Len(xml.attrib) : xml.attrib[i][1] = k
Attr(xml, k) == xml.attrib[CHOOSE i \in 1..Len(xml.attrib) : xml.attrib[i][1] = k][2]

\* the clip value parse hands to the begin / end setter (a str: parse_datetime)
ClipOf(xml, k) ==
    IF HasAttr(xml, k) THEN parse_datetime(stripwallclock(Attr(xml, k))) ELSE <<>>

\* variant: a parse that drops clipEnd
MediaItemParseNoEnd(xml) ==
    SMILMediaItem(xml.tag, Attr(xml, "src"), ClipOf(xml, "clipBegin"), <<>>)
\* SMILMediaItem.parse
MediaItemParse(xml) ==
    SMILMediaItem(xml.tag, Attr(xml, "src"),
                  ClipOf(xml, "clipBegin"), ClipOf(xml, "clipEnd"))

\* Meta.parse
MetaParse(xml) == Meta(Attr(xml, "name"), Attr(xml, "content"))

RECURSIVE SeqParse(_), ParParse(_), ParseChildren(_, _)
\* the loop over xml.getchildren() of Seq.parse and of Par.parse
ParseChildren(new, children) ==
    IF children = <<>> THEN new
    ELSE LET el   == Head(children)
             new1 == IF el.tag = "seq" THEN append(new, SeqParse(el)) ELSE new
             new2 == IF el.tag = "par" THEN append(new1, ParParse(el))
                     ELSE IF el.tag \in {"video", "audio"}
                          THEN append(new1, MediaItemParse(el))
                          ELSE new1
         IN  ParseChildren(new2, Tail(children))

\* Seq.parse
SeqParse(xml) == ParseChildren(SeqNode(<<>>), xml.children)

\* Par.parse
ParParse(xml) ==
    ParseChildren(ParNode(<<>>, ClipOf(xml, "clipBegin"), ClipOf(xml, "clipEnd")),
                  xml.children)

\* xml.find(tag): the first child with that tag
Find(xml, tag) ==
    xml.children[CHOOSE i \in 1..Len(xml.children) :
                    /\ xml.children[i].tag = tag
                    /\ \A j \in 1..(i - 1) : xml.children[j].tag # tag]

RECURSIVE SMILParseHead(_, _)
\* SMIL.parse: the loop over the children of head
SMILParseHead(new, children) ==
    IF children = <<>> THEN new
    ELSE LET el == Head(children)
         IN  SMILParseHead(
                 IF el.tag = "meta"
                 THEN [new EXCEPT !.head = append(@, MetaParse(el))] ELSE new,
                 Tail(children))

RECURSIVE SMILParseBody(_, _)
\* SMIL.parse: the loop over the children of body
SMILParseBody(new, children) ==
    IF children = <<>> THEN new
    ELSE LET el   == Head(children)
             new1 == IF el.tag = "seq"
                     THEN IF Len(new.body.list) = 0
                          THEN [new EXCEPT !.body = SeqParse(el)]
                          ELSE [new EXCEPT !.body = append(@, SeqParse(el))]
                     ELSE new
             new2 == IF el.tag = "video"
                     THEN [new1 EXCEPT !.body = append(@, MediaItemParse(el))]
                     ELSE new1
         IN  SMILParseBody(new2, Tail(children))

\* SMIL.parse
SMILParse(xml) ==
    SMILParseBody(SMILParseHead(SMIL, Find(xml, "head").children),
                  Find(xml, "body").children)

(***************************************************************************)
(* event.py: list_chunks, filter_chunks and the helpers of main.           *)
(* An object name f"{channel}/{date}/{start}--{end}.ismv" is the tuple     *)
(* <<channel, date, start, end>> of the values formatted into it.          *)
(***************************************************************************)
EPOCH == <<0, 0>>
archive_channel == "channel"
name == "event"

\* an aware datetime as units since EPOCH (what datetime subtraction uses)
Instant(dt) == dt[1] - dt[2] * 60 * UnitsPerSecond

\* range(a, b)
Range(a, b) == [k \in 1..(b - a) |-> a + k - 1]

\* (start - EPOCH) // interval
IStart(start, interval) == (Instant(start) - Instant(EPOCH)) \div interval

\* (end - EPOCH) // interval
IEnd(end, interval) == (Instant(end) - Instant(EPOCH)) \div interval

\* start = EPOCH + (i * interval)
BucketStart(i, interval) == <<EPOCH[1] + i * interval, 0>>

\* variant: a bucket end one interval late
BucketEndLate(i, interval) == <<EPOCH[1] + (i + 2) * interval, 0>>
\* end = EPOCH + ((i + 1) * interval)
BucketEnd(i, interval) == <<EPOCH[1] + (i + 1) * interval, 0>>

\* the chunk dict filter_chunks builds for bucket i
Chunk(channel, i, interval) ==
    LET start     == BucketStart(i, interval)
        end       == BucketEnd(i, interval)
        date      == DateStr(start)
        start_str == IsoZ(start)
        end_str   == IsoZ(end)
    IN  [start |-> start_str, end |-> end_str,
         path |-> <<channel, date, start_str, end_str>>]

\* the chunk of every i of filter_chunks' range, in range order
ExpectedChunks(channel, start, end, interval) ==
    LET r == Range(IStart(start, interval), IEnd(end, interval))
    IN  [k \in 1..Len(r) |-> Chunk(channel, r[k], interval)]

\* variant: the loop run from the last bucket to the first
filter_chunks_reversed(listing, channel, start, end, interval) ==
    LET e == ExpectedChunks(channel, start, end, interval)
        InListing(c) == c.path \in listing
    IN  SelectSeq([k \in 1..Len(e) |-> e[Len(e) + 1 - k]], InListing)
\* filter_chunks: the expected chunks whose path is in the listing
filter_chunks(listing, channel, start, end, interval) ==
    LET InListing(c) == c.path \in listing
    IN  SelectSeq(ExpectedChunks(channel, start, end, interval), InListing)

\* list_chunks with dates=None: the objects under f"{channel}/{today}"
list_chunks(objects, channel, day) ==
    {o \in objects : o[1] = channel /\ o[2] = DateStr(<<day * DayUnits>>)}

\* variant: "if chunks:" in place of the comparison
ChunksDifferNonEmpty(new, old) == new # <<>>
\* variant: the lists compared by length alone
ChunksDifferLength(new, old) == Len(new) # Len(old)
\* main: chunks != old_chunks
ChunksDiffer(new, old) == new # old

RECURSIVE InsertByStart(_, _)
\* one step of the stable sort: x goes behind every element not greater
InsertByStart(x, sorted) ==
    IF sorted = <<>> THEN <<x>>
    ELSE IF StrLess(x.start, Head(sorted).start)
         THEN <<x>> \o sorted
         ELSE <<Head(sorted)>> \o InsertByStart(x, Tail(sorted))

RECURSIVE SortedByStart(_)
\* sorted(chunks, key=lambda x: x["start"]): stable, keys compared as str
SortedByStart(l) ==
    IF l = <<>> THEN <<>>
    ELSE InsertByStart(l[Len(l)], SortedByStart(SubSeq(l, 1, Len(l) - 1)))

\* f"http://{s3_endpoint}/{s3_bucket}/{i['path']}"
Src(path) == <<"http://", "s3_endpoint", "/", "s3_bucket", "/", path>>

RECURSIVE AppendVideos(_, _)
\* main: for i in sorted(...): smil.append(Video(src=...))
AppendVideos(doc, l) ==
    IF l = <<>> THEN doc
    ELSE AppendVideos(
             [doc EXCEPT !.body = append(@, Video(Src(Head(l).path), <<>>, <<>>))],
             Tail(l))

\* main: the document built from chunks
BuildSmil(l) == AppendVideos(SMIL, SortedByStart(l))

\* f"{name}-{chunks[0]['start']}--{chunks[-1]['end']}"
Period(l) == <<name, l[1].start, l[Len(l)].end>>

(***************************************************************************)
(* event.py: main, one action per step of an iteration of its while loop.  *)
(* An uncaught exception ends the program: pc = "crashed".                 *)
(***************************************************************************)
\* the windows lie around the first midnight after EPOCH: they start at most
\* MaxOffset - 1 units before it and end at most one unit after it
WindowBase == DayUnits - MaxOffset + 1

\* datetime.now() falls in day 0..LastDay, the days the windows touch
LastDay == (WindowBase + MaxOffset) \div DayUnits

\* the objects the archive may hold: the chunk of every bucket of the
\* window, and of the first bucket behind it
Objects ==
    {Chunk(archive_channel, i, archive_interval).path :
        i \in IStart(start_time, archive_interval)..IEnd(end_time, archive_interval)}

docVars == <<attempt>>
cfgVars == <<start_time, end_time, archive_interval>>

Init ==
    /\ \E s \in 0..MaxOffset : \E e \in s..MaxOffset :
          /\ start_time = <<WindowBase + s, 0>>
          /\ end_time = <<WindowBase + e, 0>>
    /\ archive_interval \in 1..MaxInterval
    /\ archive = {}
    /\ today = 0
    /\ pc = "list"
    /\ archive_chunks = {}
    /\ prev_listing = <<>>
    /\ chunks = <<>>
    /\ old_chunks = <<>>
    /\ result = "none"
    /\ smil = SMIL
    /\ period = <<>>
    /\ effects = <<>>
    /\ raised = "none"
    /\ attempt = <<>>

\* main 199-204: archive_chunks = list_chunks(..., dates=None), with the
\* archive and the date as they are when list_objects answers: objects may
\* have come and gone and midnights passed since the last listing
ListChunks ==
    /\ pc = "list"
    /\ archive' \in SUBSET Objects
    /\ today' \in today..LastDay
    /\ archive_chunks' = list_chunks(archive', archive_channel, today')
    /\ prev_listing' = IF result = "none" THEN <<>> ELSE <<archive_chunks>>
    /\ result' = "pending"
    /\ effects' = <<>>
    /\ pc' = "filter"
    /\ UNCHANGED <<cfgVars, chunks, old_chunks, smil, period, raised, docVars>>

\* main 206-214, 236-237: chunks = filter_chunks(...); if chunks != old_chunks
FilterChunks ==
    /\ pc = "filter"
    /\ chunks' = filter_chunks(archive_chunks, archive_channel, start_time,
                               end_time, archive_interval)
    /\ IF ChunksDiffer(chunks', old_chunks)
       THEN result' = "changed" /\ pc' = "build"
       ELSE result' = "unchanged" /\ pc' = "sleep"
    /\ UNCHANGED <<cfgVars, archive, today, archive_chunks, prev_listing,
                   old_chunks, smil, period, effects, raised, docVars>>

\* main 218-225: build the document, then the period; chunks[0] of an empty
\* list raises IndexError
Build ==
    /\ pc = "build"
    /\ smil' = BuildSmil(chunks)
    /\ effects' = Append(effects, <<"SMIL", 0>>)
    /\ IF chunks = <<>>
       THEN raised' = "IndexError" /\ pc' = "crashed" /\ UNCHANGED period
       ELSE period' = Period(chunks) /\ pc' = "remix" /\ UNCHANGED raised
    /\ UNCHANGED <<cfgVars, archive, today, archive_chunks, prev_listing, chunks,
                   old_chunks, result, docVars>>

\* remix 101-102: open(f"{period}.smil", "w") and write; OSError if it fails
RemixWrite ==
    /\ pc = "remix"
    /\ \/ effects' = Append(effects, <<"write", 0>>) /\ pc' = "remix_run"
          /\ UNCHANGED raised
       \/ raised' = "OSError" /\ pc' = "crashed" /\ UNCHANGED effects
    /\ UNCHANGED <<cfgVars, archive, today, archive_chunks, prev_listing, chunks,
                   old_chunks, result, smil, period, docVars>>

\* remix 104-113: subprocess.run(cmd), no check=: the tool's exit status,
\* zero or not, is dropped; a tool that cannot be started raises
\* FileNotFoundError
RemixRun ==
    /\ pc = "remix_run"
    /\ \/ \E returncode \in {0, 1} :
             /\ effects' = Append(effects, <<"unified_remix", returncode>>)
             /\ pc' = "create_isml"
             /\ UNCHANGED raised
       \/ raised' = "FileNotFoundError" /\ pc' = "crashed" /\ UNCHANGED effects
    /\ UNCHANGED <<cfgVars, archive, today, archive_chunks, prev_listing, chunks,
                   old_chunks, result, smil, period, docVars>>

\* create_isml 116-126 and main 235: subprocess.run(cmd), then
\* old_chunks = chunks
CreateIsml ==
    /\ pc = "create_isml"
    /\ \/ \E returncode \in {0, 1} :
             /\ effects' = Append(effects, <<"mp4split", returncode>>)
             /\ old_chunks' = chunks
             /\ pc' = "sleep"
             /\ UNCHANGED raised
       \/ raised' = "FileNotFoundError" /\ pc' = "crashed"
          /\ UNCHANGED <<effects, old_chunks>>
    /\ UNCHANGED <<cfgVars, archive, today, archive_chunks, prev_listing, chunks,
                   result, smil, period, docVars>>

\* main 238: sleep(60), then the next iteration
Sleep ==
    /\ pc = "sleep"
    /\ pc' = "list"
    /\ UNCHANGED <<cfgVars, archive, today, archive_chunks, prev_listing, chunks,
                   old_chunks, result, smil, period, effects, raised, docVars>>

Next ==
    \/ ListChunks
    \/ FilterChunks
    \/ Build
    \/ RemixWrite
    \/ RemixRun
    \/ CreateIsml
    \/ Sleep

Spec == Init /\ [][Next]_vars

(***************************************************************************)
(* smil.py: a document under edit.  A container is addressed by the part   *)
(* of the document it is in and the path of 1-based indices to it.         *)
(***************************************************************************)
RECURSIVE NodeAt(_, _)
\* container[i][j]...: repeated __getitem__
NodeAt(node, path) ==
    IF path = <<>> THEN node ELSE NodeAt(node.list[Head(path)], Tail(path))

RECURSIVE ReplaceAt(_, _, _)
\* the tree with the node at path changed in place
ReplaceAt(node, path, new) ==
    IF path = <<>> THEN new
    ELSE [node EXCEPT !.list[Head(path)] = ReplaceAt(@, Tail(path), new)]

RECURSIVE ContainerPaths(_)
ContainerPaths(node) ==
    IF node.tag \notin {"seq", "par"} THEN {}
    ELSE {<<>>} \cup UNION {{<<i>> \o p : p \in ContainerPaths(node.list[i])} :
                              i \in 1..Len(node.list)}

RECURSIVE Size(_), SizeAll(_)
Size(node) == 1 + SizeAll(node.list)
SizeAll(l) == IF l = <<>> THEN 0 ELSE Size(Head(l)) + SizeAll(Tail(l))

\* nodes of the document, its Head and body Seq not counted
DocSize(doc) == SizeAll(doc.head.list) + SizeAll(doc.body.list)

Targets(doc) ==
    {[part |-> "head", path |-> <<>>]}
      \cup {[part |-> "body", path |-> p] : p \in ContainerPaths(doc.body)}

Container(doc, t) ==
    IF t.part = "head" THEN doc.head ELSE NodeAt(doc.body, t.path)

WithContainer(doc, t, c) ==
    IF t.part = "head" THEN [doc EXCEPT !.head = c]
    ELSE [doc EXCEPT !.body = ReplaceAt(@, t.path, c)]

\* the nodes the operations are called with
Values ==
    { Video(<<"a">>, <<>>, <<>>),
      Audio(<<"b">>, <<UnitsPerSecond + 1, 0>>, <<DayUnits - 1, 60>>),
      SeqNode(<<>>),
      ParNode(<<>>, <<DayUnits + UnitsPerSecond, -90>>, <<1>>),
      Meta(<<"n">>, <<"c">>) }

\* the lists the list setter is called with
Lists == {<<>>, <<Video(<<"a">>, <<>>, <<>>)>>, <<Meta(<<"n">>, <<"c">>)>>}

InitDoc ==
    /\ start_time = <<WindowBase, 0>>
    /\ end_time = <<WindowBase, 0>>
    /\ archive_interval = 1
    /\ archive = {}
    /\ today = 0
    /\ pc = "edit"
    /\ archive_chunks = {}
    /\ prev_listing = <<>>
    /\ chunks = <<>>
    /\ old_chunks = <<>>
    /\ result = "none"
    /\ smil = SMIL
    /\ period = <<>>
    /\ effects = <<>>
    /\ raised = "none"
    /\ attempt = <<>>

loopVars == <<cfgVars, archive, today, pc, archive_chunks, prev_listing, chunks,
              old_chunks, result, period, effects>>

\* a checked operation: op(c, v) replaces the container if c.check(v)
\* returns, TypeError if it raises
Checked(t, v, new) ==
    IF Check(Container(smil, t), v)
    THEN /\ DocSize(WithContainer(smil, t, new)) <= MaxNodes
         /\ smil' = WithContainer(smil, t, new)
         /\ raised' = "none"
    ELSE /\ raised' = "TypeError"
         /\ UNCHANGED smil

\* SMILListBase.insert(index, value) (SMIL.insert on the body)
DocInsert ==
    /\ pc = "edit"
    /\ \E t \in Targets(smil) : \E v \in Values :
       \E index \in 0..Len(Container(smil, t).list) :
          /\ attempt' = <<Container(smil, t).tag, v.tag>>
          /\ Checked(t, v, insert(Container(smil, t), index, v))
    /\ UNCHANGED loopVars

\* MutableSequence.append(value) (SMIL.append on the body)
DocAppend ==
    /\ pc = "edit"
    /\ \E t \in Targets(smil) : \E v \in Values :
          /\ attempt' = <<Container(smil, t).tag, v.tag>>
          /\ Checked(t, v, append(Container(smil, t), v))
    /\ UNCHANGED loopVars

\* SMILListBase.__setitem__(index, value) (SMIL.__setitem__ on the body)
DocSetItem ==
    /\ pc = "edit"
    /\ \E t \in Targets(smil) : \E v \in Values :
       \E index \in 0..(Len(Container(smil, t).list) - 1) :
          /\ attempt' = <<Container(smil, t).tag, v.tag>>
          /\ Checked(t, v, setitem(Container(smil, t), index, v))
    /\ UNCHANGED loopVars

\* SMILListBase.__delitem__(index) (SMIL.__delitem__ on the body)
DocDelItem ==
    /\ pc = "edit"
    /\ \E t \in Targets(smil) :
       \E index \in 0..(Len(Container(smil, t).list) - 1) :
          /\ attempt' = <<>>
          /\ smil' = WithContainer(smil, t, delitem(Container(smil, t), index))
          /\ raised' = "none"
    /\ UNCHANGED loopVars

\* the list setter: check raises on the first invalid item; it returns None
\* for a valid one, so all([...]) holds for the empty list alone and a
\* non-empty valid list is not stored
DocSetList ==
    /\ pc = "edit"
    /\ \E t \in Targets(smil) : \E l \in Lists :
          /\ attempt' = IF l = <<>> THEN <<>> ELSE <<Container(smil, t).tag, l[1].tag>>
          /\ IF \E k \in 1..Len(l) : ~Check(Container(smil, t), l[k])
             THEN raised' = "TypeError" /\ UNCHANGED smil
             ELSE /\ raised' = "none"
                  /\ IF l = <<>>
                     THEN smil' = WithContainer(smil, t,
                                      [Container(smil, t) EXCEPT !.list = l])
                     ELSE UNCHANGED smil
    /\ UNCHANGED loopVars

NextDoc ==
    \/ DocInsert
    \/ DocAppend
    \/ DocSetItem
    \/ DocDelItem
    \/ DocSetList

SpecDoc == InitDoc /\ [][NextDoc]_vars

(***************************************************************************)
(* Properties of the polling loop (specification Spec).                    *)
(***************************************************************************)
SeqRange(l) == {l[k] : k \in 1..Len(l)}
Did(what) == \E k \in 1..Len(effects) : effects[k][1] = what
TickDecided == result \in {"changed", "unchanged"}
\* filter_chunks and the comparison have just run
JustDecided == pc \in {"build", "sleep"} /\ effects = <<>>
Expected == ExpectedChunks(archive_channel, start_time, end_time, archive_interval)
StartInstant(c) == Instant(parse_datetime(c.start))
EndInstant(c) == Instant(parse_datetime(c.end))

\* C1: when the listing of a tick equals the listing of the tick before it,
\* the tick reports "unchanged" and does nothing: no document is built, no
\* file is written, neither external tool is run.
DiffStability ==
    (TickDecided /\ prev_listing = <<archive_chunks>>)
        => (result = "unchanged" /\ effects = <<>>)

DiffStabilityWitness ==
    /\ pc = "sleep"
    /\ prev_listing = <<archive_chunks>>
    /\ Len(chunks) >= 2
    /\ result = "unchanged"

\* the expected chunks whose object is in this tick's listing and was not in
\* the listing of the tick before
NewChunks ==
    IF prev_listing = <<>> \/ archive_chunks \subseteq prev_listing[1] THEN {}
    ELSE {c \in SeqRange(Expected) : c.path \in archive_chunks \ prev_listing[1]}

\* C2: when the listing gains an object named as an expected bucket path of
\* the window, the tick reports "changed", its filtered list contains the
\* new chunk, and the filtered list is in ascending order of bucket start.
ChangeDetection ==
    (JustDecided /\ NewChunks # {})
        => /\ result = "changed"
           /\ NewChunks \subseteq SeqRange(chunks)
           /\ LET starts == [k \in 1..Len(chunks) |-> StartInstant(chunks[k])]
              IN  \A i, j \in 1..Len(chunks) : i < j => starts[i] < starts[j]

ChangeDetectionWitness ==
    /\ JustDecided
    /\ Len(chunks) >= 3
    /\ NewChunks = {chunks[2]}
    /\ result = "changed"

\* C3: a tick whose filtered list is empty and differs from the remembered
\* list is skipped: no document, no external tool, no failure, the loop
\* goes on.
EmptyWindowSkipped ==
    (result = "changed" /\ chunks = <<>>)
        => (effects = <<>> /\ raised = "none" /\ pc # "crashed")

\* the buckets of the expected chunks, as <<start, end>> in units since EPOCH
Buckets ==
    LET e == Expected
    IN  [k \in 1..Len(e) |-> <<StartInstant(e[k]), EndInstant(e[k])>>]
Covered(b, t) == \E k \in 1..Len(b) : b[k][1] <= t /\ t < b[k][2]
Instants == (Instant(start_time) - MaxInterval - 1)..(Instant(end_time) + 2 * MaxInterval + 1)
BucketsOrdered(b) ==
    /\ \A k \in 1..Len(b) : b[k][1] < b[k][2]
    /\ \A i, j \in 1..Len(b) : i < j => b[i][2] <= b[j][1]
AlignedDown(t) == t - (t % archive_interval)

\* C4 as claimed: whenever filter_chunks has run, the expected buckets are
\* pairwise non-overlapping, in strictly ascending order, and their union is
\* exactly [start, end).
BucketsPartitionWindow ==
    JustDecided =>
    LET b == Buckets
    IN  /\ BucketsOrdered(b)
        /\ \A t \in Instants :
              Covered(b, t) <=> (Instant(start_time) <= t /\ t < Instant(end_time))

\* C4 as amended: whenever filter_chunks has run, the expected buckets are
\* pairwise non-overlapping, in strictly ascending order, and their union is
\* exactly the window with start and end each rounded down to a multiple of
\* the interval; it is [start, end) when both are multiples of the interval.
BucketsPartitionAlignedWindow ==
    JustDecided =>
    LET b == Buckets
    IN  /\ BucketsOrdered(b)
        /\ \A t \in Instants :
              Covered(b, t) <=> (AlignedDown(Instant(start_time)) <= t
                                   /\ t < AlignedDown(Instant(end_time)))

BucketsWitness ==
    /\ JustDecided
    /\ chunks = Expected
    /\ Len(chunks) >= 2
    /\ Instant(start_time) % archive_interval # 0

\* the chunk a Video of the document was built from
ChunkOf(video) == CHOOSE c \in SeqRange(chunks) : Src(c.path) = video.src

\* C7: a built document holds exactly one Video per chunk of the filtered
\* list, its src the base locator joined with the chunk's path, and the
\* Videos are in ascending chronological order of chunk start.
VideosChronological ==
    Did("SMIL")
        => LET videos == smil.body.list
           IN  /\ Len(videos) = Len(chunks)
               /\ \A v \in SeqRange(videos) : v.tag = "video"
               /\ {v.src : v \in SeqRange(videos)}
                     = {Src(c.path) : c \in SeqRange(chunks)}
               /\ \A i, j \in 1..Len(videos) :
                     i < j => StartInstant(ChunkOf(videos[i]))
                                < StartInstant(ChunkOf(videos[j]))

\* C8: when a rendering is emitted, the period identifier is name-S--E with
\* S the start of the first Video and E the end of the last Video of the
\* emitted document.
PeriodSpansDocument ==
    Did("write")
        => LET videos == smil.body.list
           IN  period = <<name, ChunkOf(videos[1]).start,
                          ChunkOf(videos[Len(videos)]).end>>

\* C9: a failure of the rendering step (the file cannot be written, a tool
\* cannot be started or exits non-zero) never ends the polling loop.
RenderingFailureKeepsLoop ==
    raised \in {"OSError", "FileNotFoundError"} => pc # "crashed"

\* the remembered list in every state of a tick: empty before the first tick;
\* "changed" exactly when the filtered list is not the remembered one; equal
\* to the filtered list once the tick has reached its sleep
RememberedState ==
    /\ (result = "none") => old_chunks = <<>>
    /\ JustDecided => (result = "changed" <=> chunks # old_chunks)
    /\ (pc = "sleep") => old_chunks = chunks
    /\ (pc = "sleep" /\ result = "unchanged") => effects = <<>>

\* a step that changes the remembered list is the return of the second tool
\* of a "changed" tick, the first tool having returned before it, and it
\* stores that tick's filtered list
RememberedStep ==
    (old_chunks' # old_chunks)
        => /\ result = "changed"
           /\ Did("unified_remix")
           /\ ~Did("mp4split")
           /\ Did("mp4split")'
           /\ old_chunks' = chunks

\* C11: the remembered list starts empty; a tick reports "changed" if and
\* only if its filtered list differs from the remembered list as a whole
\* list; at the end of every completed tick the remembered list equals the
\* tick's filtered list; it is replaced only after both external tools of
\* the tick have returned.
RememberedList == []RememberedState /\ [][RememberedStep]_vars

RememberedListWitness ==
    /\ pc = "sleep"
    /\ result = "changed"
    /\ prev_listing # <<>>
    /\ Len(chunks) >= 2
    /\ old_chunks = chunks
    /\ Did("unified_remix") /\ Did("mp4split")

\* a tick filters while every object the listing of the tick before
\* returned is still in the archive
NothingDeleted ==
    /\ pc = "filter"
    /\ prev_listing # <<>>
    /\ prev_listing[1] \subseteq archive

\* C12: while the archive deletes nothing, the filtered list only grows from
\* one tick to the next: every chunk of the filtered list of a tick is in
\* the filtered list of the next tick, whatever the date of the tick.
FilteredListGrows ==
    [][NothingDeleted => SeqRange(chunks) \subseteq SeqRange(chunks')]_vars

RECURSIVE ChildrenValid(_)
ChildrenValid(node) ==
    \A k \in 1..Len(node.list) :
        /\ node.list[k].tag \in {"seq", "par", "video", "audio"}
        /\ ChildrenValid(node.list[k])

\* the last operation offered a Meta to a Seq or Par, or another node to the
\* head
Misplaced ==
    /\ attempt # <<>>
    /\ \/ attempt[1] \in {"seq", "par"} /\ attempt[2] = "meta"
       \/ attempt[1] = "head" /\ attempt[2] # "meta"

\* C6: every child of a Seq or Par is a Seq, Par or media item and every
\* child of the head is a Meta; an insert, append or assignment of a node of
\* another kind fails and the node is not added.
ChildTypes ==
    /\ \A k \in 1..Len(smil.head.list) : smil.head.list[k].tag = "meta"
    /\ ChildrenValid(smil.body)
    /\ Misplaced => raised = "TypeError"

ChildTypesWitness ==
    /\ attempt = <<"par", "meta">>
    /\ raised = "TypeError"
    /\ Len(smil.head.list) >= 1

\* C10: the rendered root has the children head then body, and the rendered
\* body holds exactly one seq element.
BodyHoldsOneSeq ==
    LET el == SMILElement(smil)
    IN  /\ [k \in 1..Len(el.children) |-> el.children[k].tag] = <<"head", "body">>
        /\ [k \in 1..Len(el.children[2].children) |->
               el.children[2].children[k].tag] = <<"seq">>

====
